---------------------------- MODULE Spec2Model ----------------------------
(***************************************************************************)
(* Model of organise_files.py: the extension -> category table built at    *)
(* import time, get_category_for_file, and organise_folder / main acting   *)
(* on a directory tree.                                                    *)
(*                                                                         *)
(* A Python str is modelled as the sequence of its characters, so that     *)
(* Path.suffix and str.lower are computed and not assumed.  The content of *)
(* a file is opaque to the program (it is never read); every file of the   *)
(* initial tree carries a distinct content, named by the path where the    *)
(* file was at first.                                                      *)
(***************************************************************************)
EXTENDS Integers, Sequences, FiniteSets, TLC

\* ---- bounds ------------------------------------------------------------
\* longest extension list of one category in a test configuration
MaxExts == 2
\* number of consecutive invocations of main() on the same directory
MaxRuns == 2
\* threads that serve requests of the task manager at the same time
NumThreads == 2
\* calls of add_task and complete_task made in all
MaxCalls == 3

\* ---- str values --------------------------------------------------------
Images == <<"I","m","a","g","e","s">>

Videos == <<"V","i","d","e","o","s">>

Documents == <<"D","o","c","u","m","e","n","t","s">>

Audio == <<"A","u","d","i","o">>

Archives == <<"A","r","c","h","i","v","e","s">>

Executables == <<"E","x","e","c","u","t","a","b","l","e","s">>

Code == <<"C","o","d","e">>

\* organise_files.py:19-27
images ==
  << <<".","p","n","g">>, <<".","j","p","g">>, <<".","j","p","e","g">>,
     <<".","g","i","f">>, <<".","b","m","p">>, <<".","w","e","b","p">>,
     <<".","s","v","g">>, <<".","i","c","o">>, <<".","t","i","f","f">>,
     <<".","t","i","f">> >>

videos ==
  << <<".","m","p","4">>, <<".","a","v","i">>, <<".","m","k","v">>,
     <<".","m","o","v">>, <<".","w","m","v">>, <<".","f","l","v">>,
     <<".","w","e","b","m">>, <<".","m","4","v">>, <<".","m","p","e","g">>,
     <<".","m","p","g">> >>

documents ==
  << <<".","p","d","f">>, <<".","d","o","c">>, <<".","d","o","c","x">>,
     <<".","x","l","s">>, <<".","x","l","s","x">>, <<".","p","p","t">>,
     <<".","p","p","t","x">>, <<".","t","x","t">>, <<".","r","t","f">>,
     <<".","o","d","t">>, <<".","o","d","s">>, <<".","o","d","p">>,
     <<".","c","s","v">>, <<".","m","d">>, <<".","t","e","x">> >>

audio ==
  << <<".","m","p","3">>, <<".","w","a","v">>, <<".","f","l","a","c">>,
     <<".","a","a","c">>, <<".","o","g","g">>, <<".","w","m","a">>,
     <<".","m","4","a">>, <<".","o","p","u","s">> >>

archives ==
  << <<".","z","i","p">>, <<".","r","a","r">>, <<".","7","z">>,
     <<".","t","a","r">>, <<".","g","z">>, <<".","b","z","2">>,
     <<".","x","z">>, <<".","i","s","o">> >>

executables ==
  << <<".","e","x","e">>, <<".","m","s","i">>, <<".","b","a","t">>,
     <<".","c","m","d">>, <<".","s","h">>, <<".","a","p","p">>,
     <<".","d","m","g">> >>

code ==
  << <<".","p","y">>, <<".","j","s">>, <<".","t","s">>,
     <<".","h","t","m","l">>, <<".","c","s","s">>, <<".","j","s","o","n">>,
     <<".","x","m","l">>, <<".","y","a","m","l">>, <<".","y","m","l">>,
     <<".","j","a","v","a">>, <<".","c">>, <<".","c","p","p">>,
     <<".","h">>, <<".","c","s">>, <<".","g","o">>,
     <<".","r","s">>, <<".","r","b">>, <<".","p","h","p">> >>

\* organise_files.py:30-38; the dict as the sequence of its items
CATEGORIES ==
  << <<Images, images>>, <<Videos, videos>>, <<Documents, documents>>,
     <<Audio, audio>>, <<Archives, archives>>,
     <<Executables, executables>>, <<Code, code>> >>

\* organise_files.py:42
OTHERS == <<"O","t","h","e","r","s">>

\* str.lower() on one character
LowerChar ==
  [c \in {"A","B","C","D","E","F","G","H","I","J","K","L","M",
          "N","O","P","Q","R","S","T","U","V","W","X","Y","Z"} |->
     CASE c = "A" -> "a" [] c = "B" -> "b" [] c = "C" -> "c" [] c = "D" -> "d"
       [] c = "E" -> "e" [] c = "F" -> "f" [] c = "G" -> "g" [] c = "H" -> "h"
       [] c = "I" -> "i" [] c = "J" -> "j" [] c = "K" -> "k" [] c = "L" -> "l"
       [] c = "M" -> "m" [] c = "N" -> "n" [] c = "O" -> "o" [] c = "P" -> "p"
       [] c = "Q" -> "q" [] c = "R" -> "r" [] c = "S" -> "s" [] c = "T" -> "t"
       [] c = "U" -> "u" [] c = "V" -> "v" [] c = "W" -> "w" [] c = "X" -> "x"
       [] c = "Y" -> "y" [] c = "Z" -> "z"]

\* str.lower()
lower(s) ==
  [i \in 1..Len(s) |-> IF s[i] \in DOMAIN LowerChar THEN LowerChar[s[i]] ELSE s[i]]

\* str.rfind(ch), 1-based; 0 when ch does not occur (Python: 0-based, -1)
rfind(s, ch) ==
  LET I == {i \in 1..Len(s) : s[i] = ch}
  IN  IF I = {} THEN 0 ELSE CHOOSE i \in I : \A j \in I : j <= i

\* PurePath.suffix: the last dot and what follows it, unless that dot is the
\* first or the last character of the name
suffix(name) ==
  LET i == rfind(name, ".")
  IN  IF 1 < i /\ i < Len(name) THEN SubSeq(name, i, Len(name)) ELSE <<>>

\* ---- the classification table (organise_files.py:43-52) ------------------
\* every (lower-cased extension, category name) declaration, in the order
\* of the two nested loops of lines 44-47
RECURSIVE Declarations(_)
Declarations(cats) ==
  IF cats = <<>> THEN <<>>
  ELSE LET name == Head(cats)[1]
           exts == Head(cats)[2]
       IN  [i \in 1..Len(exts) |-> <<lower(exts[i]), name>>]
             \o Declarations(Tail(cats))

\* _ext_to_categories: extension -> list of the categories appended for it
ext_to_categories(cats) ==
  LET decls == Declarations(cats)
      keys  == {decls[i][1] : i \in 1..Len(decls)}
      IsFor(e) == LET Test(d) == d[1] = e IN SelectSeq(decls, Test)
  IN  [e \in keys |-> [i \in 1..Len(IsFor(e)) |-> IsFor(e)[i][2]]]

\* EXTENSION_TO_CATEGORY
EXTENSION_TO_CATEGORY(cats) ==
  LET m == ext_to_categories(cats)
  IN  [ext \in DOMAIN m |-> IF Len(m[ext]) = 1 THEN m[ext][1] ELSE OTHERS]

\* ---- file names and test configurations ----------------------------------
a_png == <<"a",".","p","n","g">>

c_ini == <<"c",".","i","n","i">>

B_PNG == <<"B",".","P","N","G">>

dot_txt == <<".","t","x","t">>

d_dot == <<"d",".">>

e_tar_gz == <<"e",".","t","a","r",".","g","z">>

f_txt == <<"f",".","t","x","t">>

g_TXT == <<"g",".","T","X","T">>

h_py == <<"h",".","p","y">>

\* names given to get_category_for_file
QueryNames ==
  {a_png, c_ini, B_PNG, dot_txt, d_dot, e_tar_gz, f_txt, g_TXT, h_py, Images}

\* extensions declared by the test configurations
TestExts == {<<".","t","x","t">>, <<".","T","X","T">>, <<".","p","y">>}

ExtLists == UNION {[1..n -> TestExts] : n \in 0..MaxExts}

\* CATEGORIES of a test: two categories, each with a list of extensions
TestConfigs ==
  {<< <<Documents, d>>, <<Code, c>> >> : d \in ExtLists, c \in ExtLists}

\* names of the entries the modelled directory can hold at its top level
FileNames == {a_png, c_ini, Images, OTHERS}

VARIABLES
  config,         \* CATEGORIES of the running module
  table,          \* EXTENSION_TO_CATEGORY of the running module
  query, result,  \* the last direct call of get_category_for_file
  rootKind,       \* what folder_path resolves to: "dir", "file" or "missing"
  fs,             \* the tree below root: path -> entry
  pc,             \* position of main()/organise_folder
  dry_run, skip_existing,
  outcome,        \* all_files of the run -> what the run printed for the file
  filepath,       \* loop variable of the for loop
  raised,         \* exception that left organise_folder, or "none"
  exitCode,       \* exit status of the process, -1 while none
  failed,         \* calls of this run that failed: "is_dir" (root test), "mkdir", "unlink", "rename"
  run,            \* number of invocations started
  fsStart,        \* fs when the current invocation started
  prev,           \* flags and failures of the invocation before this one
  fsInit,         \* fs before the first invocation
  safe,           \* every invocation so far was a dry run or had skip_existing
  tasks,          \* app.py: the global list, each task with id and completed
  next_id,        \* app.py: the global _next_id
  tpc,            \* thread -> position in add_task / complete_task
  task_id,        \* thread -> local task_id of add_task
  tmp,            \* thread -> value loaded by _next_id += 1
  arg,            \* thread -> argument id of complete_task
  iter,           \* thread -> position of the for loop of complete_task
  returned,       \* the ids add_task has returned, in the order of the returns
  calls           \* number of calls made

taskVars == <<tasks, next_id, tpc, task_id, tmp, arg, iter, returned, calls>>

organiserVars ==
  <<config, table, query, result, rootKind, fs, pc, dry_run, skip_existing,
    outcome, filepath, raised, exitCode, failed, run, fsStart, prev, fsInit,
    safe>>

vars == <<organiserVars, taskVars>>

tableVars == <<config, table, query, result>>

\* get_category_for_file with the default of .get() left out
get_category_for_file_nodefault(file_path) ==
  LET ext == lower(suffix(file_path))
  IN  IF ext \in DOMAIN table THEN table[ext] ELSE <<>>

\* get_category_for_file, organise_files.py:55-58
get_category_for_file(file_path) ==
  LET ext == lower(suffix(file_path))
  IN  IF ext \in DOMAIN table THEN table[ext] ELSE OTHERS

\* ---- the directory tree ---------------------------------------------------
\* root / category / name, organise_files.py:96-97
Dest(name) == <<get_category_for_file(name), name>>

\* the paths of the modelled tree, relative to root: the top-level names and,
\* below the two category folders these names are sorted into, the place of
\* each name
Paths ==
  {<<n>> : n \in FileNames}
    \cup {<<Images, a_png>>, <<OTHERS, c_ini>>, <<OTHERS, Images>>,
          <<OTHERS, OTHERS>>}

NoEntry == [kind |-> "none", content |-> <<>>]

DirEntry == [kind |-> "dir", content |-> <<>>]

\* Path.exists()
Exists(f, p) == f[p].kind # "none"

\* Path.is_dir()
IsDir(f, p) == f[p].kind = "dir"

\* Path.is_file(): follows symbolic links, so a link to a regular file is one
IsFile(f, p) == f[p].kind \in {"file", "link"}

\* kinds of entry a path of the initial tree can have: regular file,
\* directory, symbolic link to a regular file outside the tree, or nothing
KindsAt(p) ==
  CASE p = <<a_png>>         -> {"none", "file", "link"}
    [] p = <<c_ini>>         -> {"none", "file"}
    [] p = <<Images>>        -> {"none", "file", "dir"}
    [] p = <<OTHERS>>        -> {"none", "file", "dir"}
    [] p = <<Images, a_png>> -> {"none", "file", "dir"}
    [] p = <<OTHERS, c_ini>> -> {"none", "file"}
    [] p = <<OTHERS, Images>> -> {"none", "file"}
    [] OTHER                 -> {"none"}

\* an entry exists only inside a directory
WellFormed(k) ==
  \A p \in Paths : Len(p) = 2 /\ k[p] # "none" => k[<<p[1]>>] = "dir"

\* the trees main() can be started on; a file's content is named by its path
InitialTrees ==
  {[p \in Paths |->
      [kind |-> k[p],
       content |-> IF k[p] \in {"file", "link"} THEN p ELSE <<>>]] :
     k \in {x \in [Paths -> {"none", "file", "dir", "link"}] :
              (\A p \in Paths : x[p] \in KindsAt(p)) /\ WellFormed(x)}}

EmptyTree == [p \in Paths |-> NoEntry]

\* ---- main() and organise_folder -----------------------------------------
\* files of all_files the loop has not reached
Remaining == {n \in DOMAIN outcome : outcome[n] = "pending"}

NoRun == [live |-> FALSE, skip |-> FALSE, failed |-> {}, changed |-> FALSE]

\* ---- app.py: the task list when the module is loaded (lines 6-7) ----------
Threads == 1..NumThreads

NoTasks ==
  /\ tasks = <<>>
  /\ next_id = 1
  /\ tpc = [t \in Threads |-> "idle"]
  /\ task_id = [t \in Threads |-> 0]
  /\ tmp = [t \in Threads |-> 0]
  /\ arg = [t \in Threads |-> 0]
  /\ iter = [t \in Threads |-> 0]
  /\ returned = <<>>
  /\ calls = 0

\* before main() is called
Idle ==
  /\ pc = "idle"
  /\ dry_run = FALSE
  /\ skip_existing = TRUE
  /\ outcome = <<>>
  /\ filepath = <<>>
  /\ raised = "none"
  /\ exitCode = -1
  /\ failed = {}
  /\ run = 0
  /\ prev = NoRun
  /\ safe = TRUE

Init ==
  /\ config = CATEGORIES
  /\ table = EXTENSION_TO_CATEGORY(CATEGORIES)
  /\ query = <<>>
  /\ result = <<>>
  /\ \/ rootKind = "dir" /\ fs \in InitialTrees
     \/ rootKind \in {"file", "missing"} /\ fs = EmptyTree
  /\ fsStart = fs
  /\ fsInit = fs
  /\ Idle
  /\ NoTasks

\* Start that reports a bad root and returns instead of raising
Start_returns(d, s) ==
  /\ pc \in {"idle", "returned", "raised"}
  /\ run < MaxRuns
  /\ run' = run + 1
  /\ dry_run' = d
  /\ skip_existing' = s
  /\ prev' = IF pc = "idle" THEN NoRun
             ELSE [live |-> ~dry_run, skip |-> skip_existing,
                   failed |-> failed, changed |-> fs # fsStart]
  /\ fsStart' = fs
  /\ filepath' = <<>>
  /\ LET all_files == IF rootKind # "dir" THEN {}
                      ELSE {n \in FileNames : IsFile(fs, <<n>>)}
     IN  /\ outcome' = [n \in all_files |-> "pending"]
         /\ raised' = "none"
         /\ failed' = {}
         /\ IF all_files = {}
              THEN pc' = "returned" /\ exitCode' = 0
              ELSE pc' = "loop" /\ exitCode' = -1
  /\ safe' = (safe /\ (d \/ s))
  /\ UNCHANGED <<tableVars, taskVars, fsInit, rootKind, fs>>

\* Start whose listing keeps every entry (exists() for is_file())
Start_lists_all(d, s) ==
  /\ pc \in {"idle", "returned", "raised"}
  /\ run < MaxRuns
  /\ run' = run + 1
  /\ dry_run' = d
  /\ skip_existing' = s
  /\ prev' = IF pc = "idle" THEN NoRun
             ELSE [live |-> ~dry_run, skip |-> skip_existing,
                   failed |-> failed, changed |-> fs # fsStart]
  /\ fsStart' = fs
  /\ filepath' = <<>>
  /\ IF rootKind # "dir"
       THEN /\ pc' = "raised"
            /\ raised' = "NotADirectoryError"
            /\ exitCode' = 1
            /\ failed' = {"is_dir"}
            /\ outcome' = <<>>
       ELSE LET all_files == {n \in FileNames : Exists(fs, <<n>>)}
            IN  /\ outcome' = [n \in all_files |-> "pending"]
                /\ raised' = "none"
                /\ failed' = {}
                /\ IF all_files = {}
                     THEN pc' = "returned" /\ exitCode' = 0
                     ELSE pc' = "loop" /\ exitCode' = -1
  /\ safe' = (safe /\ (d \/ s))
  /\ UNCHANGED <<tableVars, taskVars, fsInit, rootKind, fs>>

\* main() parses the flags and calls organise_folder, which checks the root
\* and lists its files (organise_files.py:144-150, 74-84)
Start(d, s) ==
  /\ pc \in {"idle", "returned", "raised"}
  /\ run < MaxRuns
  /\ run' = run + 1
  /\ dry_run' = d
  /\ skip_existing' = s
  /\ prev' = IF pc = "idle" THEN NoRun
             ELSE [live |-> ~dry_run, skip |-> skip_existing,
                   failed |-> failed, changed |-> fs # fsStart]
  /\ fsStart' = fs
  /\ filepath' = <<>>
  /\ IF rootKind # "dir"
       THEN /\ pc' = "raised"
            /\ raised' = "NotADirectoryError"
            /\ exitCode' = 1
            /\ failed' = {"is_dir"}
            /\ outcome' = <<>>
       ELSE LET all_files == {n \in FileNames : IsFile(fs, <<n>>)}
            IN  /\ outcome' = [n \in all_files |-> "pending"]
                /\ raised' = "none"
                /\ failed' = {}
                /\ IF all_files = {}
                     THEN pc' = "returned" /\ exitCode' = 0
                     ELSE pc' = "loop" /\ exitCode' = -1
  /\ safe' = (safe /\ (d \/ s))
  /\ UNCHANGED <<tableVars, taskVars, fsInit, rootKind, fs>>

\* for filepath in all_files, in whatever order iterdir() listed them
NextFile(f) ==
  /\ pc = "loop"
  /\ f \in Remaining
  /\ filepath' = f
  /\ pc' = "body"
  /\ UNCHANGED <<tableVars, taskVars, fsInit, safe, rootKind, fs, dry_run, skip_existing, outcome,
                 raised, exitCode, failed, run, fsStart, prev>>

\* DryReport placed after the mkdir of line 104
DryReport_after_mkdir ==
  /\ pc = "body"
  /\ dry_run
  /\ fs' = [fs EXCEPT ![<<get_category_for_file(filepath)>>] =
                        IF @.kind = "none" THEN DirEntry ELSE @]
  /\ outcome' = [outcome EXCEPT ![filepath] = "dry"]
  /\ pc' = "loop"
  /\ UNCHANGED <<tableVars, taskVars, fsInit, safe, rootKind, dry_run, skip_existing, filepath,
                 raised, exitCode, failed, run, fsStart, prev>>

\* organise_files.py:99-101
DryReport ==
  /\ pc = "body"
  /\ dry_run
  /\ outcome' = [outcome EXCEPT ![filepath] = "dry"]
  /\ pc' = "loop"
  /\ UNCHANGED <<tableVars, taskVars, fsInit, safe, rootKind, fs, dry_run, skip_existing, filepath,
                 raised, exitCode, failed, run, fsStart, prev>>

\* an exception leaves organise_folder and main(): the process ends with
\* a traceback and status 1
Raise(exc, call) ==
  /\ pc' = "raised"
  /\ raised' = exc
  /\ exitCode' = 1
  /\ failed' = failed \cup {call}

\* target_dir.mkdir(exist_ok=True), organise_files.py:104
Mkdir ==
  /\ pc = "body"
  /\ ~dry_run
  /\ LET target_dir == <<get_category_for_file(filepath)>>
     IN  \/ /\ IsDir(fs, target_dir)
            /\ pc' = "exists"
            /\ UNCHANGED <<fs, raised, exitCode, failed>>
         \/ /\ ~Exists(fs, target_dir)
            /\ fs' = [fs EXCEPT ![target_dir] = DirEntry]
            /\ pc' = "exists"
            /\ UNCHANGED <<raised, exitCode, failed>>
         \/ /\ Exists(fs, target_dir)
            /\ ~IsDir(fs, target_dir)
            /\ Raise("FileExistsError", "mkdir")
            /\ UNCHANGED fs
  /\ UNCHANGED <<tableVars, taskVars, fsInit, safe, rootKind, dry_run, skip_existing, outcome,
                 filepath, run, fsStart, prev>>

\* os.mkdir refuses to create the folder (for example root is read-only)
MkdirFails ==
  /\ pc = "body"
  /\ ~dry_run
  /\ ~Exists(fs, <<get_category_for_file(filepath)>>)
  /\ Raise("PermissionError", "mkdir")
  /\ UNCHANGED <<tableVars, taskVars, fsInit, safe, rootKind, fs, dry_run, skip_existing, outcome,
                 filepath, run, fsStart, prev>>

\* SkipExisting with the unlink of lines 111-112 placed before the test
SkipExisting_after_unlink ==
  /\ pc = "exists"
  /\ Exists(fs, Dest(filepath)) /\ skip_existing
  /\ fs' = [fs EXCEPT ![Dest(filepath)] = NoEntry]
  /\ outcome' = [outcome EXCEPT ![filepath] = "skipped"]
  /\ pc' = "loop"
  /\ UNCHANGED <<tableVars, taskVars, fsInit, safe, rootKind, dry_run, skip_existing, filepath,
                 raised, exitCode, failed, run, fsStart, prev>>

\* organise_files.py:106-108
SkipExisting ==
  /\ pc = "exists"
  /\ Exists(fs, Dest(filepath)) /\ skip_existing
  /\ outcome' = [outcome EXCEPT ![filepath] = "skipped"]
  /\ pc' = "loop"
  /\ UNCHANGED <<tableVars, taskVars, fsInit, safe, rootKind, fs, dry_run, skip_existing, filepath,
                 raised, exitCode, failed, run, fsStart, prev>>

\* CheckDest that goes on to overwrite whatever skip_existing says
CheckDest_ignores_skip ==
  /\ pc = "exists"
  /\ pc' = IF Exists(fs, Dest(filepath)) THEN "unlink" ELSE "rename"
  /\ UNCHANGED <<tableVars, taskVars, fsInit, safe, rootKind, fs, dry_run, skip_existing, outcome,
                 filepath, raised, exitCode, failed, run, fsStart, prev>>

\* organise_files.py:106 not taken, then the test of line 111
CheckDest ==
  /\ pc = "exists"
  /\ ~(Exists(fs, Dest(filepath)) /\ skip_existing)
  /\ pc' = IF Exists(fs, Dest(filepath)) THEN "unlink" ELSE "rename"
  /\ UNCHANGED <<tableVars, taskVars, fsInit, safe, rootKind, fs, dry_run, skip_existing, outcome,
                 filepath, raised, exitCode, failed, run, fsStart, prev>>

\* Unlink that leaves the destination in place
Unlink_keeps ==
  /\ pc = "unlink"
  /\ IF IsDir(fs, Dest(filepath))
       THEN /\ Raise("IsADirectoryError", "unlink")
            /\ UNCHANGED fs
       ELSE /\ pc' = "rename"
            /\ UNCHANGED <<fs, raised, exitCode, failed>>
  /\ UNCHANGED <<tableVars, taskVars, fsInit, safe, rootKind, dry_run, skip_existing, outcome,
                 filepath, run, fsStart, prev>>

\* dest.unlink(), organise_files.py:112, outside the try block: removes a
\* file or a link, and raises on a directory
Unlink ==
  /\ pc = "unlink"
  /\ IF IsDir(fs, Dest(filepath))
       THEN /\ Raise("IsADirectoryError", "unlink")
            /\ UNCHANGED fs
       ELSE /\ fs' = [fs EXCEPT ![Dest(filepath)] = NoEntry]
            /\ pc' = "rename"
            /\ UNCHANGED <<raised, exitCode, failed>>
  /\ UNCHANGED <<tableVars, taskVars, fsInit, safe, rootKind, dry_run, skip_existing, outcome,
                 filepath, run, fsStart, prev>>

\* os.unlink refuses (for example the category folder is read-only)
UnlinkFails ==
  /\ pc = "unlink"
  /\ Raise("PermissionError", "unlink")
  /\ UNCHANGED <<tableVars, taskVars, fsInit, safe, rootKind, fs, dry_run, skip_existing, outcome,
                 filepath, run, fsStart, prev>>

\* Rename that copies: the source stays where it was
Rename_copies ==
  /\ pc = "rename"
  /\ fs' = [fs EXCEPT ![Dest(filepath)] = fs[<<filepath>>]]
  /\ outcome' = [outcome EXCEPT ![filepath] = "moved"]
  /\ pc' = "loop"
  /\ UNCHANGED <<tableVars, taskVars, fsInit, safe, rootKind, dry_run, skip_existing, filepath,
                 raised, exitCode, failed, run, fsStart, prev>>

\* filepath.rename(dest) succeeds, organise_files.py:115-116
Rename ==
  /\ pc = "rename"
  /\ fs' = [fs EXCEPT ![Dest(filepath)] = fs[<<filepath>>],
                      ![<<filepath>>] = NoEntry]
  /\ outcome' = [outcome EXCEPT ![filepath] = "moved"]
  /\ pc' = "loop"
  /\ UNCHANGED <<tableVars, taskVars, fsInit, safe, rootKind, dry_run, skip_existing, filepath,
                 raised, exitCode, failed, run, fsStart, prev>>

\* filepath.rename(dest) raises OSError, caught at organise_files.py:117-118
RenameFails ==
  /\ pc = "rename"
  /\ outcome' = [outcome EXCEPT ![filepath] = "error"]
  /\ failed' = failed \cup {"rename"}
  /\ pc' = "loop"
  /\ UNCHANGED <<tableVars, taskVars, fsInit, safe, rootKind, fs, dry_run, skip_existing, filepath,
                 raised, exitCode, run, fsStart, prev>>

\* the loop is over: organise_folder and main() return, the process exits 0
Return ==
  /\ pc = "loop"
  /\ Remaining = {}
  /\ pc' = "returned"
  /\ exitCode' = 0
  /\ UNCHANGED <<tableVars, taskVars, fsInit, safe, rootKind, fs, dry_run, skip_existing, outcome,
                 filepath, raised, failed, run, fsStart, prev>>

Next ==
  \/ \E d \in BOOLEAN, s \in BOOLEAN : Start(d, s)
  \/ \E f \in FileNames : NextFile(f)
  \/ DryReport
  \/ Mkdir
  \/ MkdirFails
  \/ SkipExisting
  \/ CheckDest
  \/ Unlink
  \/ UnlinkFails
  \/ Rename
  \/ RenameFails
  \/ Return

Spec == Init /\ [][Next]_vars

\* ---- get_category_for_file on its own, over test configurations ----------
TableInit ==
  /\ config \in TestConfigs \cup {CATEGORIES}
  /\ table = EXTENSION_TO_CATEGORY(config)
  /\ query = <<>>
  /\ result = <<>>
  /\ rootKind = "missing"
  /\ fs = EmptyTree
  /\ fsStart = fs
  /\ fsInit = fs
  /\ Idle
  /\ NoTasks

Classify(name) ==
  /\ query' = name
  /\ result' = get_category_for_file(name)
  /\ UNCHANGED <<config, table, rootKind, fs, pc, dry_run, skip_existing,
                 outcome, filepath, raised, exitCode, failed, run, fsStart,
                 prev, fsInit, safe, taskVars>>

TableNext == \E name \in QueryNames : Classify(name)

TableSpec == TableInit /\ [][TableNext]_vars


\* ---- app.py: add_task and complete_task called from several threads ------
TaskInit ==
  /\ config = CATEGORIES
  /\ table = EXTENSION_TO_CATEGORY(CATEGORIES)
  /\ query = <<>>
  /\ result = <<>>
  /\ rootKind = "missing"
  /\ fs = EmptyTree
  /\ fsStart = fs
  /\ fsInit = fs
  /\ Idle
  /\ NoTasks

\* a request handler calls add_task (app.py:37)
AddCall(t) ==
  /\ tpc[t] = "idle"
  /\ calls < MaxCalls
  /\ calls' = calls + 1
  /\ tpc' = [tpc EXCEPT ![t] = "line13"]
  /\ UNCHANGED <<organiserVars, tasks, next_id, task_id, tmp, arg, iter,
                 returned>>

\* task_id = _next_id (app.py:13)
AddReadId(t) ==
  /\ tpc[t] = "line13"
  /\ task_id' = [task_id EXCEPT ![t] = next_id]
  /\ tpc' = [tpc EXCEPT ![t] = "line14"]
  /\ UNCHANGED <<organiserVars, tasks, next_id, tmp, arg, iter, returned,
                 calls>>

\* _next_id += 1 (app.py:14): the load of the global
AddLoadNext(t) ==
  /\ tpc[t] = "line14"
  /\ tmp' = [tmp EXCEPT ![t] = next_id]
  /\ tpc' = [tpc EXCEPT ![t] = "line14store"]
  /\ UNCHANGED <<organiserVars, tasks, next_id, task_id, arg, iter, returned,
                 calls>>

\* _next_id += 1 (app.py:14): the store of the sum
AddStoreNext(t) ==
  /\ tpc[t] = "line14store"
  /\ next_id' = tmp[t] + 1
  /\ tpc' = [tpc EXCEPT ![t] = "line15"]
  /\ UNCHANGED <<organiserVars, tasks, task_id, tmp, arg, iter, returned,
                 calls>>

\* tasks.append(...) (app.py:15)
AddAppend(t) ==
  /\ tpc[t] = "line15"
  /\ tasks' = Append(tasks, [id |-> task_id[t], completed |-> FALSE])
  /\ tpc' = [tpc EXCEPT ![t] = "line16"]
  /\ UNCHANGED <<organiserVars, next_id, task_id, tmp, arg, iter, returned,
                 calls>>

\* return task_id (app.py:16)
AddReturn(t) ==
  /\ tpc[t] = "line16"
  /\ returned' = Append(returned, task_id[t])
  /\ tpc' = [tpc EXCEPT ![t] = "idle"]
  /\ UNCHANGED <<organiserVars, tasks, next_id, task_id, tmp, arg, iter,
                 calls>>

\* a request handler calls complete_task(id) (app.py:43)
CompleteCall(t, id) ==
  /\ tpc[t] = "idle"
  /\ calls < MaxCalls
  /\ calls' = calls + 1
  /\ arg' = [arg EXCEPT ![t] = id]
  /\ iter' = [iter EXCEPT ![t] = 0]
  /\ tpc' = [tpc EXCEPT ![t] = "line21"]
  /\ UNCHANGED <<organiserVars, tasks, next_id, task_id, tmp, returned>>

\* for task in tasks / if task["id"] == id (app.py:21-22), and return False
\* when the list is exhausted (app.py:25)
CompleteNext(t) ==
  /\ tpc[t] = "line21"
  /\ IF iter[t] >= Len(tasks)
       THEN /\ tpc' = [tpc EXCEPT ![t] = "idle"]
            /\ UNCHANGED iter
       ELSE /\ iter' = [iter EXCEPT ![t] = iter[t] + 1]
            /\ tpc' = [tpc EXCEPT ![t] =
                         IF tasks[iter[t] + 1].id = arg[t] THEN "line23"
                         ELSE "line21"]
  /\ UNCHANGED <<organiserVars, tasks, next_id, task_id, tmp, arg, returned,
                 calls>>

\* task["completed"] = True; return True (app.py:23-24)
CompleteSet(t) ==
  /\ tpc[t] = "line23"
  /\ tasks' = [tasks EXCEPT ![iter[t]].completed = TRUE]
  /\ tpc' = [tpc EXCEPT ![t] = "idle"]
  /\ UNCHANGED <<organiserVars, next_id, task_id, tmp, arg, iter, returned,
                 calls>>

TaskNext ==
  \E t \in Threads :
    \/ AddCall(t)
    \/ AddReadId(t)
    \/ AddLoadNext(t)
    \/ AddStoreNext(t)
    \/ AddAppend(t)
    \/ AddReturn(t)
    \/ \E id \in 1..MaxCalls : CompleteCall(t, id)
    \/ CompleteNext(t)
    \/ CompleteSet(t)

TaskSpec == TaskInit /\ [][TaskNext]_vars

\* ---- properties -----------------------------------------------------------
\* the files the current run listed
Listed == DOMAIN outcome

\* C1: a dry run changes nothing: at every point of a dry run, and after it,
\* the tree is the tree the run started on, whatever skip_existing is.
C1_DryRunIsNoOp == dry_run => fs = fsStart

\* C1 witness: a dry run over at least two files, one of them in a category
\* whose folder does not exist, has returned.
C1_Witness ==
  /\ dry_run /\ pc = "returned"
  /\ Cardinality(Listed) >= 2
  /\ \A n \in Listed : outcome[n] = "dry"
  /\ \E n \in Listed : ~Exists(fs, <<Dest(n)[1]>>)

\* C2 (the claim as stated): when the unlink of an existing destination or
\* the rename of a file fails, no exception leaves organise_folder and the
\* process does not exit non-zero.
C2_RelocationFailureIsCaught ==
  failed \cap {"unlink", "rename"} # {} => pc # "raised" /\ exitCode # 1

\* C3: in a live run with skip_existing, a file whose destination existed
\* when the run started keeps its place and its content, so does the
\* destination, the run does not stop at that file, and the file is reported
\* as skipped.
C3_ConflictDefault ==
  ~dry_run /\ skip_existing =>
    \A n \in Listed :
      Exists(fsStart, Dest(n)) =>
        /\ fs[Dest(n)] = fsStart[Dest(n)]
        /\ fs[<<n>>] = fsStart[<<n>>]
        /\ outcome[n] \in {"pending", "skipped"}
        /\ ~(pc = "raised" /\ filepath = n)
        /\ pc = "returned" => outcome[n] = "skipped"

\* C3 witness: a live run with skip_existing has skipped one file and moved
\* another, and has returned.
C3_Witness ==
  /\ ~dry_run /\ skip_existing /\ pc = "returned"
  /\ \E n \in Listed : outcome[n] = "skipped" /\ Exists(fsStart, Dest(n))
  /\ \E n \in Listed : outcome[n] = "moved"

\* a file of the run whose destination was a file with another content.
\* That the source is no more at its place is stated below as: no file is
\* there (the folder of a category may have been created under that name).
OverwriteCase(n) ==
  /\ n \in Listed
  /\ fsStart[Dest(n)].kind = "file"
  /\ fsStart[Dest(n)].content # fsStart[<<n>>].content

SecondOfTwoSkipRuns ==
  /\ run >= 2
  /\ prev.live /\ prev.skip
  /\ ~dry_run /\ skip_existing

\* C5: when no filesystem call fails in either of two consecutive live runs
\* with skip_existing, the second run leaves the tree as the first one
\* left it.
C5_SecondRunChangesNothing ==
  SecondOfTwoSkipRuns /\ prev.failed = {} /\ failed = {} => fs = fsStart

\* C5 witness: the first run changed the tree, the second listed a file and
\* returned, and nothing failed.
C5_Witness ==
  /\ SecondOfTwoSkipRuns /\ prev.failed = {} /\ failed = {}
  /\ prev.changed
  /\ pc = "returned"
  /\ Listed # {}

C7_FullRelocation ==
  /\ ~dry_run /\ pc = "returned" /\ failed = {}
  /\ \A n \in Listed : ~Exists(fsStart, Dest(n))
  =>
  /\ \A n \in FileNames :
       fsStart[<<n>>].kind = "file" => fs[Dest(n)] = fsStart[<<n>>]
  /\ \A n \in FileNames : fs[<<n>>].kind # "file"

\* C7 witness: such a run has moved three files, one of them named like the
\* category folder of another.
C7_Witness ==
  /\ ~dry_run /\ pc = "returned" /\ failed = {}
  /\ \A n \in Listed : ~Exists(fsStart, Dest(n))
  /\ Cardinality({n \in Listed : fsStart[<<n>>].kind = "file"}) >= 3
  /\ Images \in Listed

\* the lower-cased extensions the configuration declares
DeclaredExts ==
  UNION {{lower(config[i][2][j]) : j \in 1..Len(config[i][2])} :
           i \in 1..Len(config)}

\* the categories that declare ext
Claiming(ext) ==
  {config[i][1] : i \in {k \in 1..Len(config) :
                           \E j \in 1..Len(config[k][2]) :
                             lower(config[k][2][j]) = ext}}

\* C8 (the claim as stated): the table has one entry per declared extension:
\* the claiming category when exactly one category declares the extension,
\* "Others" when two or more do.
C8_TableMapsDeclared ==
  /\ DOMAIN table = DeclaredExts
  /\ \A ext \in DeclaredExts :
       table[ext] = IF Cardinality(Claiming(ext)) = 1
                      THEN CHOOSE c \in Claiming(ext) : TRUE
                      ELSE OTHERS

\* the names of the configured categories
CategoryNames == {config[i][1] : i \in 1..Len(config)}

\* a name has an extension when a dot that is neither its first nor its
\* last character is followed by no other dot
HasExtension(name) ==
  \E i \in 2..(Len(name) - 1) :
    name[i] = "." /\ \A j \in (i + 1)..Len(name) : name[j] # "."

\* C9: get_category_for_file returns a configured category name or "Others"
\* for every name, and "Others" for a name without extension and for an
\* extension the table does not hold.
C9_ClassificationTotal ==
  query # <<>> =>
    /\ result \in CategoryNames \cup {OTHERS}
    /\ (~HasExtension(query) \/ lower(suffix(query)) \notin DOMAIN table)
         => result = OTHERS

\* C9 witness: a name that starts with a dot and has no other was classified
\* under a table that holds its letters as an extension.
C9_Witness ==
  /\ query = dot_txt
  /\ result = OTHERS
  /\ dot_txt \in DOMAIN table

\* C10: when the root is missing or is not a directory, organise_folder
\* raises NotADirectoryError, nothing below or at the root has changed, and
\* the process exits with a non-zero status.
C10_NotADirectory ==
  run > 0 /\ rootKind # "dir" =>
    /\ pc = "raised" /\ raised = "NotADirectoryError"
    /\ fs = fsStart
    /\ exitCode > 0

\* C10 witness: main() was started on a regular file and has failed.
C10_Witness ==
  rootKind = "file" /\ raised = "NotADirectoryError" /\ exitCode = 1

\* the paths below the top-level entry n
Below(n) == {p \in Paths : Len(p) = 2 /\ p[1] = n}

\* C11 (the claim as stated): in a live run every top-level symbolic link,
\* also one that points to a regular file, and every top-level subdirectory
\* with all that was below it, stays at its path with its content.
C11_LinksAndFoldersUntouched ==
  ~dry_run =>
    \A n \in FileNames :
      /\ fsStart[<<n>>].kind = "link" => fs[<<n>>] = fsStart[<<n>>]
      /\ fsStart[<<n>>].kind = "dir" =>
           /\ fs[<<n>>] = fsStart[<<n>>]
           /\ \A p \in Below(n) : Exists(fsStart, p) => fs[p] = fsStart[p]

\* what the claim calls the terminal outcome of file n, from the flags, the
\* tree the run started on and whether the move of n failed
ClaimedOutcome(n) ==
  IF dry_run THEN "dry"
  ELSE IF Exists(fsStart, Dest(n)) /\ skip_existing THEN "skipped"
  ELSE IF outcome[n] = "error" THEN "error"
  ELSE IF Exists(fsStart, Dest(n)) THEN "overwritten"
  ELSE "moved"

\* C12 (the claim as stated): when the run is over every listed file has
\* exactly the outcome the claim names for its case; an overwrite is
\* recorded as "overwritten" and not as "moved".
C12_OneTerminalOutcome ==
  pc = "returned" => \A n \in Listed : outcome[n] = ClaimedOutcome(n)

\* organise_folder returns None on every path (organise_files.py:66, 84,
\* 120-121); None is written as the empty tuple
ReturnValue == <<>>

\* number of listed files with outcome o
Count(o) == Cardinality({n \in Listed : outcome[n] = o})

\* C13 (the claim as stated): what a live run returns to its caller holds the
\* counts of moved, skipped, overwritten and errored files, which sum to the
\* number of listed files.
C13_SummaryCounts ==
  pc = "returned" /\ ~dry_run /\ Listed # {} =>
    /\ ReturnValue =
         <<Count("moved"), Count("skipped"), Count("overwritten"),
           Count("error")>>
    /\ Count("moved") + Count("skipped") + Count("overwritten")
         + Count("error") = Cardinality(Listed)

\* C15 (the claim as stated): a failure to ensure the category folder is
\* recorded for the file and does not end the run.
C15_MkdirFailureIsCaught ==
  "mkdir" \in failed =>
    /\ raised = "none"
    /\ pc = "returned" => \A n \in Listed : outcome[n] # "pending"

\* how many times the configuration lists ext, lower-cased
Listings(ext) ==
  Cardinality(UNION {{<<i, j>> : j \in {k \in 1..Len(config[i][2]) :
                                          lower(config[i][2][k]) = ext}} :
                       i \in 1..Len(config)})

\* C16 (the claim as stated): an extension listed more than once under one
\* category, and under no other, maps to that category.
C16_DuplicateIsNoOp ==
  \A ext \in DeclaredExts :
    Listings(ext) >= 2 /\ Cardinality(Claiming(ext)) = 1 =>
      table[ext] \in Claiming(ext)

\* C17 (the claim as stated): a file reported as an error is still at the
\* top level, and a destination that existed when the run started is still
\* there with its content, whatever skip_existing is.
C17_ErrorLeavesFileAndDestination ==
  ~dry_run =>
    \A n \in Listed :
      outcome[n] = "error" =>
        /\ fs[<<n>>] = fsStart[<<n>>]
        /\ Exists(fsStart, Dest(n)) => fs[Dest(n)] = fsStart[Dest(n)]

\* C11 (amended): the entries a live run lists and relocates are those for
\* which is_file() holds, a symbolic link to a regular file among them (the
\* link itself is moved); a top-level subdirectory stays, and what was below
\* it stays but for a destination that a run without skip_existing replaces.
C11_OnlyIsFileEntriesRelocated ==
  ~dry_run /\ pc # "idle" =>
    \A n \in FileNames :
      /\ n \in Listed <=> IsFile(fsStart, <<n>>)
      /\ fsStart[<<n>>].kind = "link" /\ outcome[n] = "moved" =>
           fs[Dest(n)] = fsStart[<<n>>] /\ ~Exists(fs, <<n>>)
      /\ fsStart[<<n>>].kind = "dir" =>
           /\ fs[<<n>>] = fsStart[<<n>>]
           /\ \A p \in Below(n) :
                Exists(fsStart, p) =>
                  \/ fs[p] = fsStart[p]
                  \/ ~skip_existing /\ \E m \in Listed : p = Dest(m)

\* C11 witness: a live run has moved a symbolic link into a folder that was
\* there, next to a file the folder held, and has returned.
C11_Witness ==
  /\ ~dry_run /\ pc = "returned"
  /\ fsStart[<<a_png>>].kind = "link" /\ outcome[a_png] = "moved"
  /\ fs[<<Images, a_png>>].kind = "link"
  /\ \E p \in Below(OTHERS) : Exists(fsStart, p) /\ fs[p] = fsStart[p]

\* ---- the loop as a function of the order of all_files ---------------------
\* every sequence that lists each element of S once
Orders(S) ==
  {o \in [1..Cardinality(S) -> S] :
     \A i, j \in 1..Cardinality(S) : o[i] = o[j] => i = j}

\* the live loop of organise_files.py:94-118 run on the files of order, one
\* after the other, when no call fails but those the tree itself makes fail
\* (mkdir over a file, unlink of a directory); st holds the tree, the
\* outcomes and the exception that ended the loop
RECURSIVE LiveLoop(_, _, _)
LiveLoop(st, order, skip) ==
  IF order = <<>> \/ st.raised # "none" THEN st
  ELSE LET n == Head(order)
           target_dir == <<get_category_for_file(n)>>
           dest == Dest(n)
           made == IF Exists(st.fs, target_dir) THEN st.fs
                   ELSE [st.fs EXCEPT ![target_dir] = DirEntry]
       IN  IF Exists(st.fs, target_dir) /\ ~IsDir(st.fs, target_dir)
             THEN [st EXCEPT !.raised = "FileExistsError"]
           ELSE IF Exists(made, dest) /\ skip
             THEN LiveLoop([st EXCEPT !.fs = made,
                                      !.outcome[n] = "skipped"],
                           Tail(order), skip)
           ELSE IF IsDir(made, dest)
             THEN [st EXCEPT !.fs = made, !.raised = "IsADirectoryError"]
           ELSE LiveLoop([st EXCEPT !.fs = [made EXCEPT ![dest] = made[<<n>>],
                                                        ![<<n>>] = NoEntry],
                                    !.outcome[n] = "moved"],
                         Tail(order), skip)

\* the live loop over the files the current run listed, taken in order o
InOrder(o) ==
  LiveLoop([fs |-> fsStart, outcome |-> [n \in Listed |-> "pending"],
            raised |-> "none"], o, skip_existing)

C18_NothingLost ==
  safe =>
    /\ \A p \in Paths :
         Len(p) = 2 /\ Exists(fsInit, p) => fs[p] = fsInit[p]
    /\ \A n \in FileNames :
         IsFile(fsInit, <<n>>) =>
           {p \in Paths : fs[p] = fsInit[<<n>>]} \in {{<<n>>}, {Dest(n)}}

\* C18 witness: after two such runs, the first of which changed the tree, one
\* file is at its destination and another is still at the top level because
\* its destination was taken.
C18_Witness ==
  /\ safe /\ run >= 2 /\ pc = "returned" /\ prev.changed
  /\ \E n \in FileNames :
       IsFile(fsInit, <<n>>) /\ fs[Dest(n)] = fsInit[<<n>>]
  /\ \E n \in FileNames :
       /\ IsFile(fsInit, <<n>>) /\ fs[<<n>>] = fsInit[<<n>>]
       /\ Exists(fsInit, Dest(n)) /\ fs[Dest(n)] = fsInit[Dest(n)]

\* no thread is inside add_task or complete_task
Quiet == \A t \in Threads : tpc[t] = "idle"

\* C19 (the claim as stated): under every interleaving the tasks of the list
\* have pairwise distinct ids, each id of the list was returned by exactly
\* one call of add_task once the calls are over, and completed never goes
\* back from TRUE to FALSE.
C19_DistinctIdsAndMonotoneCompleted ==
  /\ [](/\ \A i, j \in 1..Len(tasks) : tasks[i].id = tasks[j].id => i = j
        /\ Quiet =>
             \A i \in 1..Len(tasks) :
               Cardinality({k \in 1..Len(returned) :
                              returned[k] = tasks[i].id}) = 1)
  /\ [][\A i \in 1..Len(tasks) :
          tasks[i].completed => tasks'[i].completed]_vars

=============================================================================
